---- MODULE Spec2Model ----
(***************************************************************************)
(* Blob asset gateway of the gallery: the serve routes, the content-type   *)
(* sniffer and the listing route, as state machines over the blob store.   *)
(*                                                                         *)
(* Strings that the code takes apart (asset keys) are sequences of         *)
(* one-character strings; payloads are sequences of bytes 0..255; an       *)
(* optional value is <<>> (absent / null) or <<v>> (present).              *)
(***************************************************************************)
EXTENDS Integers, Sequences, FiniteSets, TLC

(***************************************************************************)
(* Bounds of the model.                                                    *)
(***************************************************************************)
\* longest payload drawn freely over SniffBytes for the sniffer
MaxSniffLen == 3

None == <<>>
Some(v) == <<v>>
IsSome(o) == Len(o) = 1
Val(o) == o[1]

Min(a, b) == IF a < b THEN a ELSE b
Max(a, b) == IF a > b THEN a ELSE b

(***************************************************************************)
(* Characters.                                                             *)
(***************************************************************************)
UpperSeq == <<"A","B","C","D","E","F","G","H","I","J","K","L","M",
              "N","O","P","Q","R","S","T","U","V","W","X","Y","Z">>
LowerSeq == <<"a","b","c","d","e","f","g","h","i","j","k","l","m",
              "n","o","p","q","r","s","t","u","v","w","x","y","z">>
DigitSeq == <<"0","1","2","3","4","5","6","7","8","9">>
Range(s) == {s[i] : i \in DOMAIN s}

\* String.prototype.toLowerCase, one character
LowerChar(c) ==
  IF c \in Range(UpperSeq)
    THEN LowerSeq[CHOOSE i \in DOMAIN UpperSeq : UpperSeq[i] = c]
    ELSE c
\* String.prototype.toLowerCase
ToLowerCase(s) == [i \in DOMAIN s |-> LowerChar(s[i])]

\* index of the last occurrence of character c in s, 0 when there is none
LastIndexOf(s, c) ==
  IF \E i \in DOMAIN s : s[i] = c
    THEN CHOOSE i \in DOMAIN s : s[i] = c /\ \A j \in DOMAIN s : s[j] = c => j <= i
    ELSE 0
\* s.split(c).pop(): the text after the last c, the whole of s when s has no c
SplitPop(s, c) == SubSeq(s, LastIndexOf(s, c) + 1, Len(s))

RECURSIVE SeqsUpTo(_, _)
\* all sequences over S of length at most n
SeqsUpTo(S, n) ==
  IF n = 0 THEN {<<>>}
  ELSE LET shorter == SeqsUpTo(S, n - 1)
       IN shorter \cup {Append(q, x) : q \in {r \in shorter : Len(r) = n - 1}, x \in S}

\* does sequence b begin with sequence sig
StartsWith(b, sig) == Len(b) >= Len(sig) /\ SubSeq(b, 1, Len(sig)) = sig

\* does sequence s contain sequence t as a contiguous run (String.includes)
Includes(s, t) ==
  \E i \in 0..(Len(s) - Len(t)) : SubSeq(s, i + 1, i + Len(t)) = t

(***************************************************************************)
(* UTF-8, as Buffer.toString() / Response.text() decode it and as          *)
(* Buffer.from(string) encodes it.  Code points are integers; U+FFFD       *)
(* (65533) replaces every ill-formed subsequence.                          *)
(***************************************************************************)
RECURSIVE Utf8Dec(_, _, _, _, _, _, _)
Utf8Dec(b, i, cp, needed, seen, lo, hi) ==
  IF i > Len(b)
    THEN IF needed # 0 THEN <<65533>> ELSE <<>>
    ELSE
      LET x == b[i] IN
      IF needed = 0
        THEN IF x <= 127 THEN <<x>> \o Utf8Dec(b, i + 1, 0, 0, 0, 128, 191)
             ELSE IF x >= 194 /\ x <= 223
               THEN Utf8Dec(b, i + 1, x - 192, 1, 0, 128, 191)
             ELSE IF x >= 224 /\ x <= 239
               THEN Utf8Dec(b, i + 1, x - 224, 2, 0,
                            IF x = 224 THEN 160 ELSE 128,
                            IF x = 237 THEN 159 ELSE 191)
             ELSE IF x >= 240 /\ x <= 244
               THEN Utf8Dec(b, i + 1, x - 240, 3, 0,
                            IF x = 240 THEN 144 ELSE 128,
                            IF x = 244 THEN 143 ELSE 191)
             ELSE <<65533>> \o Utf8Dec(b, i + 1, 0, 0, 0, 128, 191)
        ELSE IF x < lo \/ x > hi
               THEN <<65533>> \o Utf8Dec(b, i, 0, 0, 0, 128, 191)
               ELSE IF seen + 1 = needed
                      THEN <<cp * 64 + (x - 128)>> \o Utf8Dec(b, i + 1, 0, 0, 0, 128, 191)
                      ELSE Utf8Dec(b, i + 1, cp * 64 + (x - 128), needed, seen + 1, 128, 191)

\* Buffer.prototype.toString('utf8'): the code points of the decoded text
Utf8Decode(b) == Utf8Dec(b, 1, 0, 0, 0, 128, 191)

Utf8EncodeOne(c) ==
  IF c < 128 THEN <<c>>
  ELSE IF c < 2048 THEN <<192 + (c \div 64), 128 + (c % 64)>>
  ELSE IF c < 65536
    THEN <<224 + (c \div 4096), 128 + ((c \div 64) % 64), 128 + (c % 64)>>
  ELSE <<240 + (c \div 262144), 128 + ((c \div 4096) % 64),
         128 + ((c \div 64) % 64), 128 + (c % 64)>>

RECURSIVE Utf8Encode(_)
\* Buffer.from(string): the UTF-8 bytes of a text
Utf8Encode(cps) ==
  IF cps = <<>> THEN <<>> ELSE Utf8EncodeOne(Head(cps)) \o Utf8Encode(Tail(cps))

(***************************************************************************)
(* Content-type sniffer: getContentType(key, buffer) of the serve route.   *)
(***************************************************************************)
\* "WEBP" as bytes / code points
WEBP == <<87, 69, 66, 80>>
ExtJpg == <<"j","p","g">>
ExtJpeg == <<"j","p","e","g">>
ExtPng == <<"p","n","g">>
ExtWebp == <<"w","e","b","p">>
ExtGif == <<"g","i","f">>

\* the switch (ext) at the end of getContentType
ExtensionType(ext) ==
  IF ext = ExtJpg \/ ext = ExtJpeg THEN "image/jpeg"
  ELSE IF ext = ExtPng THEN "image/png"
  ELSE IF ext = ExtWebp THEN "image/webp"
  ELSE IF ext = ExtGif THEN "image/gif"
  ELSE "application/octet-stream"

\* const ext = key.toLowerCase().split('.').pop()
KeyExt(key) == SplitPop(ToLowerCase(key), ".")

\* signature[i] === v on buffer.subarray(0, 4): an index past the end is undefined
SigByte(signature, i, v) == i + 1 <= Len(signature) /\ signature[i + 1] = v

\* signature.toString().includes('WEBP')
WebpInSignature(signature) == Includes(Utf8Decode(signature), WEBP)

\* mutant of getContentType: the extension is consulted before the signature
getContentTypeExtFirst(key, buffer) ==
  IF ExtensionType(KeyExt(key)) # "application/octet-stream"
    THEN ExtensionType(KeyExt(key))
  ELSE IF Len(buffer) >= 2 /\ buffer[1] = 255 /\ buffer[2] = 216 THEN "image/jpeg"
  ELSE IF Len(buffer) >= 4 /\ SubSeq(buffer, 1, 4) = <<137, 80, 78, 71>> THEN "image/png"
  ELSE "application/octet-stream"

getContentType(key, buffer) ==
  LET ext == KeyExt(key)
      signature == SubSeq(buffer, 1, Min(4, Len(buffer)))
  IN
  IF Len(buffer) >= 2 /\ SigByte(signature, 0, 255) /\ SigByte(signature, 1, 216)
    THEN "image/jpeg"
  ELSE IF Len(buffer) >= 2 /\ SigByte(signature, 0, 137) /\ SigByte(signature, 1, 80)
          /\ SigByte(signature, 2, 78) /\ SigByte(signature, 3, 71)
    THEN "image/png"
  ELSE IF Len(buffer) >= 2 /\ WebpInSignature(signature)
    THEN "image/webp"
  ELSE ExtensionType(ext)


(***************************************************************************)
(* Query parameters and JavaScript numbers.  A parameter is None or        *)
(* Some(text); a number is [nan, v] so that NaN is not an integer.         *)
(***************************************************************************)
NaN == [nan |-> TRUE, v |-> 0]
Num(n) == [nan |-> FALSE, v |-> n]

DigitVal(c) == (CHOOSE i \in DOMAIN DigitSeq : DigitSeq[i] = c) - 1

RECURSIVE DigitsValue(_, _)
\* value of the longest run of leading digits of s, acc so far
DigitsValue(s, acc) ==
  IF s = <<>> \/ Head(s) \notin Range(DigitSeq) THEN acc
  ELSE DigitsValue(Tail(s), acc * 10 + DigitVal(Head(s)))

\* parseInt(text): optional sign, then leading decimal digits; NaN when none
ParseInt(s) ==
  LET neg == s # <<>> /\ Head(s) = "-"
      rest == IF s # <<>> /\ Head(s) \in {"-", "+"} THEN Tail(s) ELSE s
  IN IF rest = <<>> \/ Head(rest) \notin Range(DigitSeq) THEN NaN
     ELSE Num(IF neg THEN 0 - DigitsValue(rest, 0) ELSE DigitsValue(rest, 0))

\* searchParams.get(name) || dflt : null and '' both give the default
OrDefault(param, dflt) ==
  IF IsSome(param) /\ Val(param) # <<>> THEN Val(param) ELSE dflt

\* Math.min(x, n) for a JavaScript number x and an integer n
JsMin(x, n) == IF x.nan THEN NaN ELSE Num(Min(x.v, n))
\* Math.max(x, n)
JsMax(x, n) == IF x.nan THEN NaN ELSE Num(Max(x.v, n))

(***************************************************************************)
(* The blob store (external collaborator): key -> None | Some(blob), a     *)
(* blob being its bytes and the contentType of its metadata, if any.       *)
(***************************************************************************)
K_a_png == <<"a", ".", "p", "n", "g">>
K_p_b == <<"p", "/", "b">>
K_x == <<"x">>
K_dollar == <<"a", "$", "b">>
K_png == <<"p", "n", "g">>
K_c_JPG == <<"c", ".", "J", "P", "G">>
K_empty == <<>>

\* keys that the store may hold
StoreKeys == {K_a_png, K_p_b}
\* key parameters of serve requests: absent, empty, valid, and malformed ones
RequestKeys == {None, Some(K_empty), Some(K_a_png), Some(K_p_b), Some(K_x),
                Some(K_dollar)}

\* the blobs the uploaders write: bytes (empty, a JPEG start, plain ASCII) and
\* the contentType of the metadata (none, set, set to '')
Blob(bytes, contentType) == [bytes |-> bytes, contentType |-> contentType]
Blobs == {Blob(<<>>, None), Blob(<<255, 216>>, None), Blob(<<255, 216>>, Some("image/png")),
          Blob(<<65, 66>>, Some("image/png")), Blob(<<65, 66>>, Some(""))}

Lookup(st, k) == IF k \in DOMAIN st THEN st[k] ELSE None

VARIABLES
  store,      \* the blob store
  last,       \* the last serve request, what it read, and its response
  sniffKey,   \* sniffer input: the key
  sniffBuf,   \* sniffer input: the payload
  sniffOut,   \* sniffer result, None before the call
  blobs,      \* the entries of the listed store, in its enumeration order
  listLast,   \* the last listing request and its response
  walk,       \* a caller paging through a listing: what it has collected
  originCtx,  \* origin helper input: the execution context
  originOut,  \* origin helper result
  photoKey,   \* fetchPhotos input: an asset key
  photoOut,   \* fetchPhotos result: the photo derived from the key
  photosRoute, \* the photos route's module-level cache, clock and requests
  meta,       \* the MetadataCache object
  metaEnv     \* localStorage, fetches in flight and suspended loops around it

serveVars == <<store, last>>
sniffVars == <<sniffKey, sniffBuf, sniffOut>>
listVars == <<blobs, listLast, walk>>
originVars == <<originCtx, originOut>>
photoVars == <<photoKey, photoOut>>
metaVars == <<meta, metaEnv>>
cacheVars == <<photosRoute, meta, metaEnv>>
utilVars == <<originCtx, originOut, photoKey, photoOut, photosRoute, meta, metaEnv>>
vars == <<store, last, sniffKey, sniffBuf, sniffOut, blobs, listLast, walk,
          originCtx, originOut, photoKey, photoOut, photosRoute, meta, metaEnv>>


(***************************************************************************)
(* HTTP responses.  body is the byte payload with the transform applied    *)
(* to it ("raw" when the stored bytes are passed through); json is the     *)
(* JSON error body of the 4xx/5xx answers.                                 *)
(***************************************************************************)
NoBody == [kind |-> "none", bytes |-> <<>>, size |-> None, quality |-> NaN]
RawBody(b) == [kind |-> "raw", bytes |-> b, size |-> None, quality |-> NaN]

\* NextResponse.json({error, details?}, {status})
JsonResponse(status, error, details) ==
  [status |-> status, contentType |-> "application/json", body |-> NoBody,
   json |-> Some([error |-> error, details |-> details]),
   contentLength |-> None, cacheControl |-> None, cdnCacheControl |-> None,
   cacheTag |-> None, etag |-> None, nosniff |-> FALSE, disposition |-> None,
   vary |-> None]

NoResponse ==
  [status |-> 0, contentType |-> "", body |-> NoBody, json |-> None,
   contentLength |-> None, cacheControl |-> None, cdnCacheControl |-> None,
   cacheTag |-> None, etag |-> None, nosniff |-> FALSE, disposition |-> None,
   vary |-> None]

NoRequest == [key |-> None, size |-> None, download |-> None, format |-> None,
              quality |-> None]

\* one handled request: which route, the request, the number of store reads it
\* made, the exception the read raised (None: it returned), what the read
\* returned (None: no read, or the key was absent), and the response
Handled(route, req, reads, err, got, resp) ==
  [route |-> route, req |-> req, reads |-> reads, err |-> err, got |-> got,
   resp |-> resp]

\* mutant of MissingKey: only a null key counts as missing (key === null)
MissingKeyNullOnly(req) == ~IsSome(req.key)

\* if (!key): null and '' are falsy
MissingKey(req) == ~IsSome(req.key) \/ Val(req.key) = <<>>

(***************************************************************************)
(* Serve route, app/api/asset-handler/serve/route.ts                       *)
(***************************************************************************)
\* the shapes a value handed back by store.get(key) is tested for, in order:
\* ArrayBuffer, Uint8Array, a value with arrayBuffer() (Blob), Buffer, and the
\* last resort Buffer.from(value), which a string (what an untyped get()
\* resolves to) reaches
BlobShapes == {"ArrayBuffer", "Uint8Array", "Blob", "Buffer", "String"}

\* messages of the exceptions the store client raises when it is unreachable
StoreErrors == {"fetch failed", "401 unauthorized"}
StoreOutcomes == {None} \cup {Some(m) : m \in StoreErrors}

\* Response.text(): UTF-8 decode, a leading byte order mark dropped
TextOf(bytes) ==
  LET cps == Utf8Decode(bytes)
  IN IF cps # <<>> /\ Head(cps) = 65279 THEN Tail(cps) ELSE cps

\* store.get(key): null for an absent key, else the blob in the given shape
StoreGet(st, key, shape) ==
  IF Lookup(st, key) = None THEN None
  ELSE Some([shape |-> shape,
             data |-> IF shape = "String" THEN TextOf(Val(Lookup(st, key)).bytes)
                      ELSE Val(Lookup(st, key)).bytes])

\* if (!blob): null, and the empty string, are falsy
Falsy(blob) == blob = None \/ (Val(blob).shape = "String" /\ Val(blob).data = <<>>)

\* the conversion of the blob to a Buffer: Buffer.from copies bytes, and
\* encodes a string as UTF-8
ToBuffer(blob) ==
  IF blob.shape = "String" THEN Utf8Encode(blob.data) ELSE blob.data

\* the 200 response of the route
ServeOk(key, buffer) ==
  [status |-> 200, contentType |-> getContentType(key, buffer),
   body |-> RawBody(buffer), json |-> None,
   contentLength |-> Some(Len(buffer)),
   cacheControl |-> Some("public, max-age=31536000, immutable"),
   cdnCacheControl |-> None, cacheTag |-> None, etag |-> Some(<<key>>),
   nosniff |-> FALSE, disposition |-> None, vary |-> None]

\* the 400 of a request without key
ServeMissingKey(req) ==
  Handled("serve", req, 0, None, None, JsonResponse(400, "Key parameter is required", None))

\* mutant of ServeNotFound: the null check is missing, so that the conversion
\* of null throws and the catch block answers
ServeNotFoundThrows(req, got) ==
  Handled("serve", req, 1, None, got,
          JsonResponse(500, "Internal server error", Some("Failed to process image data")))

\* the 404 of a blob not found
ServeNotFound(req, got) ==
  Handled("serve", req, 1, None, got, JsonResponse(404, "Image not found", None))

\* the catch block: 500 with the exception's message as details
ServeError(req, message) ==
  Handled("serve", req, 1, Some(message), None,
          JsonResponse(500, "Internal server error", Some(message)))

\* mutant of ServeHandle: the bytes and the metadata are fetched by two calls
ServeHandleTwoReads(st, req, shape, outcome) ==
  IF MissingKey(req) THEN ServeMissingKey(req)
  ELSE
    LET key == Val(req.key)
        blob == StoreGet(st, key, shape)
    IN
    IF IsSome(outcome) THEN ServeError(req, Val(outcome))
    ELSE IF Falsy(blob) THEN ServeNotFound(req, Lookup(st, key))
    ELSE Handled("serve", req, 2, None, Lookup(st, key), ServeOk(key, ToBuffer(Val(blob))))

\* GET of route.ts for request req, the store answering with `outcome` (an
\* exception message, or None) and handing blobs back in shape `shape`
ServeHandle(st, req, shape, outcome) ==
  IF MissingKey(req) THEN ServeMissingKey(req)
  ELSE
    LET key == Val(req.key)
        blob == StoreGet(st, key, shape)
    IN
    IF IsSome(outcome) THEN ServeError(req, Val(outcome))
    ELSE IF Falsy(blob) THEN ServeNotFound(req, Lookup(st, key))
    ELSE Handled("serve", req, 1, None, Lookup(st, key), ServeOk(key, ToBuffer(Val(blob))))

ServeRequests ==
  [key : RequestKeys, size : {None}, download : {None, Some(<<"1">>)},
   format : {None}, quality : {None}]

ServeGET ==
  /\ \E req \in ServeRequests, shape \in BlobShapes, outcome \in StoreOutcomes :
       last' = ServeHandle(store, req, shape, outcome)
  /\ UNCHANGED <<store, sniffVars, listVars, utilVars>>


(***************************************************************************)
(* Streaming serve route of the playbook ("Stage 2 - Serve Route           *)
(* (Streaming + Headers)"), the documented replacement of route.ts.        *)
(***************************************************************************)
\* one character of the class [A-Za-z0-9._-]
KeyChar(c) ==
  c \in Range(UpperSeq) \cup Range(LowerSeq) \cup Range(DigitSeq) \cup {".", "_", "-"}
\* /^[A-Za-z0-9._-]+$/.test(key)
KeyFormatOk(key) == key # <<>> /\ \A i \in DOMAIN key : KeyChar(key[i])

\* what getWithMetadata hands back for a key the store does not hold: null
\* (destructuring it throws) or an object whose data is null
MissingShapes == {"null", "nodata"}

\* (metadata as any)?.contentType || 'application/octet-stream'
DeclaredType(blob) ==
  IF IsSome(blob.contentType) /\ Val(blob.contentType) # ""
    THEN Val(blob.contentType) ELSE "application/octet-stream"

\* key.split('/').pop() || 'download'
DownloadName(key) ==
  IF SplitPop(key, "/") = <<>> THEN <<"d","o","w","n","l","o","a","d">>
  ELSE SplitPop(key, "/")

StreamOk(key, req, blob) ==
  [status |-> 200, contentType |-> DeclaredType(blob),
   body |-> RawBody(blob.bytes), json |-> None, contentLength |-> None,
   cacheControl |-> Some("public, max-age=31536000, immutable"),
   cdnCacheControl |-> Some("public, s-maxage=31536000, immutable"),
   cacheTag |-> Some(key), etag |-> None, nosniff |-> TRUE,
   disposition |-> IF req.download = Some(<<"1">>) THEN Some(DownloadName(key)) ELSE None,
   vary |-> None]

\* the catch block: 500 with a fixed body
StreamError(req, err) ==
  Handled("stream", req, 1, err, None, JsonResponse(500, "Failed to serve asset", None))

StreamHandle(st, req, missing, outcome) ==
  IF MissingKey(req)
    THEN Handled("stream", req, 0, None, None, JsonResponse(400, "Missing key", None))
  ELSE IF ~KeyFormatOk(Val(req.key))
    THEN Handled("stream", req, 0, None, None, JsonResponse(400, "Invalid key format", None))
  ELSE
    LET key == Val(req.key) IN
    IF IsSome(outcome) THEN StreamError(req, outcome)
    ELSE IF Lookup(st, key) = None
      THEN IF missing = "null"
             THEN StreamError(req, Some("Cannot destructure property 'data'"))
             ELSE Handled("stream", req, 1, None, None,
                          JsonResponse(404, "Asset not found", None))
    ELSE Handled("stream", req, 1, None, Lookup(st, key),
                 StreamOk(key, req, Val(Lookup(st, key))))

StreamRequests ==
  [key : RequestKeys, size : {None}, download : {None, Some(<<"1">>), Some(<<"0">>)},
   format : {None}, quality : {None}]

StreamGET ==
  /\ \E req \in StreamRequests, missing \in MissingShapes, outcome \in StoreOutcomes :
       last' = StreamHandle(store, req, missing, outcome)
  /\ UNCHANGED <<store, sniffVars, listVars, utilVars>>

(***************************************************************************)
(* Resizing serve route (sharp).                                           *)
(***************************************************************************)
\* Math.min(100, Math.max(1, parseInt(searchParams.get('quality') || '75')))
Quality(req) == JsMin(JsMax(ParseInt(OrDefault(req.quality, <<"7", "5">>)), 1), 100)
\* searchParams.get('format') || 'webp'
Format(req) == IF IsSome(req.format) /\ Val(req.format) # "" THEN Val(req.format) ELSE "webp"

\* the branch on format: the encoder applied and the Content-Type
SharpKind(format) ==
  IF format = "webp" THEN "sharp-webp"
  ELSE IF format = "jpeg" \/ format = "jpg" THEN "sharp-jpeg"
  ELSE IF format = "png" THEN "sharp-png"
  ELSE "sharp-original"
SharpType(format) ==
  IF format = "webp" THEN "image/webp"
  ELSE IF format = "png" THEN "image/png"
  ELSE "image/jpeg"

\* const cacheTime = size === 'thumb' ? '31536000' : '86400'
SharpCache(req) ==
  IF req.size = Some("thumb") THEN "public, max-age=31536000, immutable"
  ELSE "public, max-age=86400, immutable"

\* the 200 response; the body is the encoder's output for the stored bytes,
\* kept as the encoder, its input and its settings (Content-Length is the
\* length of that output, which is not computed here)
SharpOk(key, req, blob) ==
  [status |-> 200, contentType |-> SharpType(Format(req)),
   body |-> [kind |-> SharpKind(Format(req)), bytes |-> blob.bytes,
             size |-> req.size, quality |-> Quality(req)],
   json |-> None, contentLength |-> None,
   cacheControl |-> Some(SharpCache(req)), cdnCacheControl |-> None,
   cacheTag |-> None, etag |-> Some(<<key, req.size, Format(req), Quality(req)>>),
   nosniff |-> TRUE, disposition |-> None, vary |-> Some("Accept-Encoding")]

\* sharp rejects an empty input, an input it cannot decode (decodable is the
\* library's verdict on the bytes), and a quality that is not a number
SharpThrows(req, blob, decodable) ==
  \/ blob.bytes = <<>>
  \/ ~decodable
  \/ SharpKind(Format(req)) # "sharp-original" /\ Quality(req).nan

SharpHandle(st, req, decodable, outcome) ==
  IF MissingKey(req)
    THEN Handled("sharp", req, 0, None, None, JsonResponse(400, "Missing key parameter", None))
  ELSE
    LET key == Val(req.key) IN
    IF IsSome(outcome)
      THEN Handled("sharp", req, 1, outcome, None,
                   JsonResponse(500, "Failed to serve asset", None))
    ELSE IF Lookup(st, key) = None
      THEN Handled("sharp", req, 1, None, None, JsonResponse(404, "Asset not found", None))
    ELSE IF SharpThrows(req, Val(Lookup(st, key)), decodable)
      THEN Handled("sharp", req, 1, None, Lookup(st, key),
                   JsonResponse(500, "Failed to serve asset", None))
    ELSE Handled("sharp", req, 1, None, Lookup(st, key),
                 SharpOk(key, req, Val(Lookup(st, key))))

SharpRequests ==
  [key : RequestKeys, size : {None, Some("thumb")}, download : {None},
   format : {None, Some("bmp")}, quality : {None, Some(<<"h", "i">>)}]

SharpGET ==
  /\ \E req \in SharpRequests, decodable \in BOOLEAN, outcome \in StoreOutcomes :
       last' = SharpHandle(store, req, decodable, outcome)
  /\ UNCHANGED <<store, sniffVars, listVars, utilVars>>

(***************************************************************************)
(* The uploaders (outside the gateway) write and delete blobs.             *)
(***************************************************************************)
\* store.set(key, buffer, { metadata: { contentType, ... } }) / store.set(key, buffer)
Upload ==
  /\ \E k \in StoreKeys, b \in Blobs : store' = [store EXCEPT ![k] = Some(b)]
  /\ UNCHANGED <<last, sniffVars, listVars, utilVars>>

\* netlify blobs:delete property-assets <key>
Delete ==
  /\ \E k \in StoreKeys : store[k] # None /\ store' = [store EXCEPT ![k] = None]
  /\ UNCHANGED <<last, sniffVars, listVars, utilVars>>

(***************************************************************************)
(* Listing route: GET of the asset list, paginated in memory.              *)
(***************************************************************************)
\* the hard ceiling of limit
MaxLimit == 200

RECURSIVE ToDigits(_)
\* Number.prototype.toString of a natural number
ToDigits(n) ==
  IF n < 10 THEN <<DigitSeq[n + 1]>> ELSE Append(ToDigits(n \div 10), DigitSeq[(n % 10) + 1])

PrefixA == <<"A", "/">>
PrefixB == <<"B", "/">>
PrefixC == <<"C", "/">>
\* a store entry: key <prefix>IMG_<n>, and its etag
Entry(prefix, n) == [key |-> prefix \o <<"I", "M", "G", "_">> \o ToDigits(n), etag |-> n]
EntriesOf(prefix, n) == [i \in 1..n |-> Entry(prefix, i)]

\* assetStore.list({ prefix }): the entries whose key starts with prefix, in
\* the store's order
StoreList(bs, prefix) ==
  SelectSeq(bs, LAMBDA b : Len(b.key) >= Len(prefix) /\ SubSeq(b.key, 1, Len(prefix)) = prefix)

\* JavaScript arithmetic on numbers that may be NaN
JsAdd(x, y) == IF x.nan \/ y.nan THEN NaN ELSE Num(x.v + y.v)
JsMul(x, y) == IF x.nan \/ y.nan THEN NaN ELSE Num(x.v * y.v)
\* n > x
JsLess(x, n) == ~x.nan /\ n > x.v
\* JSON.stringify of a number: NaN becomes null
JsonNum(x) == IF x.nan THEN None ELSE Some(x.v)

\* the relative index of Array.prototype.slice: NaN is 0, a negative index
\* counts from the end
SliceIndex(x, len) ==
  IF x.nan THEN 0
  ELSE IF x.v < 0 THEN Max(len + x.v, 0)
  ELSE Min(x.v, len)
\* Array.prototype.slice(start, end)
JsSlice(q, start, end) ==
  SubSeq(q, SliceIndex(start, Len(q)) + 1, SliceIndex(end, Len(q)))

\* parseInt(searchParams.get('page') || '1')
PageOf(req) == ParseInt(OrDefault(req.page, <<"1">>))
\* Math.min(parseInt(searchParams.get('limit') || '50'), 200)
LimitOf(req) == JsMin(ParseInt(OrDefault(req.limit, <<"5", "0">>)), MaxLimit)
\* searchParams.get('prefix') || ''
PrefixOf(req) == OrDefault(req.prefix, <<>>)

\* mutant of StartIdx: pages counted from 0
StartIdxFromZero(page, limit) == JsMul(page, limit)

\* const startIdx = (page - 1) * limit
StartIdx(page, limit) == JsMul(JsAdd(page, Num(0 - 1)), limit)
\* const endIdx = startIdx + limit
EndIdx(page, limit) == JsAdd(StartIdx(page, limit), limit)

\* blob.key.split('_').pop() || blob.key
Filename(key) == IF SplitPop(key, "_") = <<>> THEN key ELSE SplitPop(key, "_")
Asset(b) == [key |-> b.key, etag |-> b.etag, filename |-> Filename(b.key)]

\* mutant of ListOk: total counts the returned page
ListOkPageTotal(matches, page, limit) ==
  LET pageBlobs == JsSlice(matches, StartIdx(page, limit), EndIdx(page, limit))
      hasMore == JsLess(EndIdx(page, limit), Len(matches))
  IN [status |-> 200,
      assets |-> [i \in DOMAIN pageBlobs |-> Asset(pageBlobs[i])],
      page |-> JsonNum(page), limit |-> JsonNum(limit), hasMore |-> hasMore,
      nextCursor |-> IF hasMore /\ Len(pageBlobs) > 0
                       THEN Some(pageBlobs[Len(pageBlobs)].key) ELSE None,
      total |-> Len(pageBlobs), error |-> None]

\* the 200 response of the listing
ListOk(matches, page, limit) ==
  LET pageBlobs == JsSlice(matches, StartIdx(page, limit), EndIdx(page, limit))
      hasMore == JsLess(EndIdx(page, limit), Len(matches))
  IN [status |-> 200,
      assets |-> [i \in DOMAIN pageBlobs |-> Asset(pageBlobs[i])],
      page |-> JsonNum(page), limit |-> JsonNum(limit), hasMore |-> hasMore,
      nextCursor |-> IF hasMore /\ Len(pageBlobs) > 0
                       THEN Some(pageBlobs[Len(pageBlobs)].key) ELSE None,
      total |-> Len(matches), error |-> None]

\* mutant of ListError: the failure is swallowed and answered as an empty
\* listing
ListErrorSwallowed ==
  [status |-> 200, assets |-> <<>>, page |-> None, limit |-> None, hasMore |-> FALSE,
   nextCursor |-> None, total |-> 0, error |-> None]

\* the catch block
ListError ==
  [status |-> 500, assets |-> <<>>, page |-> None, limit |-> None, hasMore |-> FALSE,
   nextCursor |-> None, total |-> 0, error |-> Some("Failed to list assets")]

NoListResponse ==
  [status |-> 0, assets |-> <<>>, page |-> None, limit |-> None, hasMore |-> FALSE,
   nextCursor |-> None, total |-> 0, error |-> None]

\* GET of the listing route, the store's list call raising `outcome` or not
ListHandle(bs, req, outcome) ==
  IF IsSome(outcome) THEN ListError
  ELSE ListOk(StoreList(bs, PrefixOf(req)), PageOf(req), LimitOf(req))

ListRequest(prefix, page, limit, cursor) ==
  [prefix |-> prefix, page |-> page, limit |-> limit, cursor |-> cursor]
NoListRequest == ListRequest(None, None, None, None)

\* the unpaginated listing of app/api/photos/route.ts: every match, as key
\* and etag (no filename: kept empty), and no pagination object
PhotosOk(matches) ==
  [status |-> 200,
   assets |-> [i \in DOMAIN matches |->
                 [key |-> matches[i].key, etag |-> matches[i].etag, filename |-> <<>>]],
   page |-> None, limit |-> None, hasMore |-> FALSE, nextCursor |-> None,
   total |-> 0, error |-> None]

\* GET of app/api/photos/route.ts
PhotosHandle(bs, req, outcome) ==
  IF IsSome(outcome) THEN ListError
  ELSE PhotosOk(StoreList(bs, PrefixOf(req)))

\* the calls of assetStore.list one request makes: one, in the try block,
\* whether it returns or throws
ListCalls(outcome) == 1

\* one handled listing: the route, the request, the number of list calls made
\* on the store, the exception the list call raised (None: it returned), the
\* number of entries that matched the prefix, and the response
Listed(route, req, outcome, matched, resp) ==
  [route |-> route, req |-> req, lists |-> ListCalls(outcome), err |-> outcome,
   matched |-> matched, resp |-> resp]

ListPrefixes == {None, Some(PrefixA), Some(PrefixC)}
ListPages == {None, Some(<<"2">>), Some(<<"3">>), Some(<<"0">>), Some(<<"x">>)}
ListLimits == {None, Some(<<"6", "0">>), Some(<<"2", "5", "0">>), Some(<<"0">>),
               Some(<<"-", "1">>), Some(<<"a", "b", "c">>)}
ListCursors == {None, Some(Entry(PrefixA, 2).key)}
ListOutcomes == {None, Some("fetch failed")}

NoWalk == [mode |-> "idle", req |-> NoListRequest, calls |-> 0, collected |-> <<>>,
           done |-> FALSE]

ListGET ==
  /\ walk = NoWalk
  /\ \E prefix \in ListPrefixes, page \in ListPages, limit \in ListLimits,
        cursor \in ListCursors, outcome \in ListOutcomes :
       listLast' = Listed("list", ListRequest(prefix, page, limit, cursor), outcome,
                          Len(StoreList(blobs, OrDefault(prefix, <<>>))),
                          ListHandle(blobs, ListRequest(prefix, page, limit, cursor), outcome))
  /\ UNCHANGED <<blobs, walk, serveVars, sniffVars, utilVars>>

PhotosListGET ==
  /\ walk = NoWalk
  /\ \E prefix \in ListPrefixes, outcome \in ListOutcomes :
       LET req == ListRequest(prefix, None, None, None)
       IN listLast' = Listed("photos", req, outcome, Len(StoreList(blobs, PrefixOf(req))),
                             PhotosHandle(blobs, req, outcome))
  /\ UNCHANGED <<blobs, walk, serveVars, sniffVars, utilVars>>

(***************************************************************************)
(* A caller paging through the listing.  In mode "page" it asks as the     *)
(* gallery's loadPhotos does, with the next page number and the cursor of  *)
(* the previous response; in mode "cursor" it passes the cursor alone.     *)
(***************************************************************************)
\* most calls of one traversal
MaxCalls == 4

WalkLimits == {Some(<<"5", "0">>), Some(<<"6", "0">>), Some(<<"2", "5", "0">>)}
WalkPrefixes == {Some(PrefixA), None}

Keys(assets) == [i \in DOMAIN assets |-> assets[i].key]

\* the request of call number n (from 1), after a response that gave cursor
WalkRequest(mode, prefix, limit, n, cursor) ==
  IF mode = "page" THEN ListRequest(prefix, Some(ToDigits(n)), limit, cursor)
  ELSE ListRequest(prefix, None, limit, cursor)

\* the caller's state after the response to its request
Walked(mode, req, calls, before, resp) ==
  [mode |-> mode, req |-> req, calls |-> calls,
   collected |-> before \o Keys(resp.assets), done |-> ~resp.hasMore]

WalkStart ==
  /\ walk = NoWalk
  /\ \E mode \in {"page", "cursor"}, prefix \in WalkPrefixes, limit \in WalkLimits :
       LET req == WalkRequest(mode, prefix, limit, 1, None)
           resp == ListHandle(blobs, req, None)
       IN /\ listLast' = Listed("list", req, None, Len(StoreList(blobs, PrefixOf(req))), resp)
          /\ walk' = Walked(mode, req, 1, <<>>, resp)
  /\ UNCHANGED <<blobs, serveVars, sniffVars, utilVars>>

WalkNext ==
  /\ walk.mode \in {"page", "cursor"}
  /\ ~walk.done
  /\ walk.calls < MaxCalls
  /\ LET req == WalkRequest(walk.mode, walk.req.prefix, walk.req.limit,
                            walk.calls + 1, listLast.resp.nextCursor)
         resp == ListHandle(blobs, req, None)
     IN /\ listLast' = Listed("list", req, None, Len(StoreList(blobs, PrefixOf(req))), resp)
        /\ walk' = Walked(walk.mode, req, walk.calls + 1, walk.collected, resp)
  /\ UNCHANGED <<blobs, serveVars, sniffVars, utilVars>>

(***************************************************************************)
(* Origin helper, app/utils/getOrigin.ts, and the version of it that the   *)
(* playbook documents.  A URL is a sequence of text fragments; an          *)
(* environment variable or header is None when unset, and Some(<<>>) when  *)
(* set to the empty string.                                                *)
(***************************************************************************)
\* a || b on strings: the empty string and undefined are falsy
OrElse(a, b) == IF IsSome(a) /\ Val(a) # <<>> THEN Val(a) ELSE b
\* a ?? b: only null/undefined give way
Coalesce(a, b) == IF IsSome(a) THEN Val(a) ELSE b

\* the execution context of one call: window.location.origin (None on the
\* server), process.env, and the headers of the request being rendered
\* (headersFail: headers() throws, as it does outside a request)
Context(window, env, hdrs, headersFail) ==
  [window |-> window, env |-> env, hdrs |-> hdrs, headersFail |-> headersFail]
Env(port, siteUrl, url, deployPrimeUrl) ==
  [PORT |-> port, NEXT_PUBLIC_SITE_URL |-> siteUrl, URL |-> url,
   DEPLOY_PRIME_URL |-> deployPrimeUrl]
Headers(proto, fhost, host) ==
  [xForwardedProto |-> proto, xForwardedHost |-> fhost, host |-> host]
NoContext == Context(None, Env(None, None, None, None), Headers(None, None, None), FALSE)

\* `http://localhost:${port}` with port = process.env.PORT ?? '8888'
LocalDefault(env) == <<"http://localhost:">> \o Coalesce(env.PORT, <<"8888">>)

\* mutant of getOrigin: the environment is consulted before the window
getOriginEnvFirst(ctx) ==
  IF IsSome(ctx.env.NEXT_PUBLIC_SITE_URL) /\ Val(ctx.env.NEXT_PUBLIC_SITE_URL) # <<>>
    THEN Val(ctx.env.NEXT_PUBLIC_SITE_URL)
  ELSE IF IsSome(ctx.window) THEN Val(ctx.window)
  ELSE LocalDefault(ctx.env)

\* getOrigin() of app/utils/getOrigin.ts
getOrigin(ctx) ==
  IF IsSome(ctx.window) THEN Val(ctx.window)
  ELSE OrElse(ctx.env.NEXT_PUBLIC_SITE_URL, LocalDefault(ctx.env))

\* getClientOrigin() of app/utils/getOrigin.ts
getClientOrigin(ctx) ==
  IF IsSome(ctx.window) THEN Val(ctx.window)
  ELSE OrElse(ctx.env.NEXT_PUBLIC_SITE_URL, LocalDefault(ctx.env))

\* getOrigin() of the playbook: it reads the forwarded headers, and the
\* catch block answers when headers() throws
PlaybookGetOrigin(ctx) ==
  IF IsSome(ctx.window) THEN Val(ctx.window)
  ELSE IF ctx.headersFail
    THEN OrElse(ctx.env.NEXT_PUBLIC_SITE_URL, <<"http://localhost:8888">>)
  ELSE
    LET proto == Coalesce(ctx.hdrs.xForwardedProto, <<"https">>)
        host == Coalesce(ctx.hdrs.xForwardedHost,
                         Coalesce(ctx.hdrs.host, <<"localhost:8888">>))
    IN OrElse(ctx.env.URL,
         OrElse(ctx.env.DEPLOY_PRIME_URL,
           OrElse(ctx.env.NEXT_PUBLIC_SITE_URL, proto \o <<"://">> \o host)))

\* one resolved call: which resolver, and the origin it returned
Resolved(resolver, origin) == [resolver |-> resolver, origin |-> origin]
NoResolved == Resolved("none", <<>>)

GetOrigin ==
  /\ originOut = NoResolved
  /\ originOut' = Resolved("getOrigin", getOrigin(originCtx))
  /\ UNCHANGED <<originCtx, photoVars, serveVars, sniffVars, listVars, cacheVars>>

GetClientOrigin ==
  /\ originOut = NoResolved
  /\ originOut' = Resolved("getClientOrigin", getClientOrigin(originCtx))
  /\ UNCHANGED <<originCtx, photoVars, serveVars, sniffVars, listVars, cacheVars>>

PlaybookOrigin ==
  /\ originOut = NoResolved
  /\ originOut' = Resolved("playbook", PlaybookGetOrigin(originCtx))
  /\ UNCHANGED <<originCtx, photoVars, serveVars, sniffVars, listVars, cacheVars>>

(***************************************************************************)
(* The galleries' fetchPhotos: what each derives from an asset key.        *)
(***************************************************************************)
RECURSIVE Split(_, _)
\* s.split(c): the segments of s between occurrences of c
Split(s, c) ==
  IF c \notin Range(s) THEN <<s>>
  ELSE LET i == CHOOSE i \in DOMAIN s : s[i] = c /\ \A j \in 1..(i - 1) : s[j] # c
       IN <<SubSeq(s, 1, i - 1)>> \o Split(SubSeq(s, i + 1, Len(s)), c)

\* s.replace(t, ''): the first occurrence of t removed
RemoveFirst(s, t) ==
  IF ~Includes(s, t) THEN s
  ELSE LET i == CHOOSE i \in 0..(Len(s) - Len(t)) :
                  /\ SubSeq(s, i + 1, i + Len(t)) = t
                  /\ \A j \in 0..(i - 1) : SubSeq(s, j + 1, j + Len(t)) # t
       IN SubSeq(s, 1, i) \o SubSeq(s, i + Len(t) + 1, Len(s))

PICKED == <<"P", "I", "C", "K", "E", "D">>

\* key.includes('PICKED') ? 'picked' : 'unpicked'
StatusOf(name) == IF Includes(name, PICKED) THEN "picked" ELSE "unpicked"

\* parts[1] || '' with parts = key.split('_')
TimestampOf(name) ==
  LET parts == Split(name, "_")
  IN IF Len(parts) >= 2 THEN parts[2] ELSE <<>>

\* one derived photo: which gallery, the key, its status and timestamp
Photo(gallery, key, name) ==
  [gallery |-> gallery, key |-> key, status |-> StatusOf(name),
   timestamp |-> TimestampOf(name)]
NoPhoto == [gallery |-> "none", key |-> <<>>, status |-> "", timestamp |-> <<>>]

\* `parties/${year}/${propertyId}/` of the event gallery
EventPrefix == <<"p", "/", "2", "5", "/", "a", "/">>

\* fetchPhotos of app/photos/page.tsx and of the property gallery: status and
\* timestamp from the whole key
PhotosFetch ==
  /\ photoOut = NoPhoto
  /\ photoOut' = Photo("photos", photoKey, photoKey)
  /\ UNCHANGED <<photoKey, originVars, serveVars, sniffVars, listVars, cacheVars>>

\* fetchPhotos of EventGallery.tsx: status and timestamp from the key with
\* the listing's prefix removed
EventFetch ==
  /\ photoOut = NoPhoto
  /\ StartsWith(photoKey, EventPrefix)
  /\ photoOut' = Photo("event", photoKey, RemoveFirst(photoKey, EventPrefix))
  /\ UNCHANGED <<photoKey, originVars, serveVars, sniffVars, listVars, cacheVars>>

OriginIdle == originCtx = NoContext /\ originOut = NoResolved
PhotoIdle == photoKey = <<>> /\ photoOut = NoPhoto

(***************************************************************************)
(* Photos route with a module-level cache: cachedData and cacheTime live   *)
(* in the module, a GET checks them, and otherwise awaits the upstream     *)
(* listing.  Time is in milliseconds since the module was loaded (the      *)
(* initial cacheTime = 0 is only ever read while cachedData is null).      *)
(***************************************************************************)
\* const CACHE_DURATION = 5 * 60 * 1000
CACHE_DURATION == 5 * 60 * 1000

\* JSON bodies the upstream listing answers with: two versions of the
\* listing, and the error body of its catch block
ListingBody(v) == [kind |-> "listing", v |-> v]
ErrorBody == [kind |-> "error", v |-> 0]
FailedBody == [kind |-> "failed", v |-> 0]

\* what `await fetch(...)` followed by `await response.json()` comes to: a
\* parsed body with the status it came with, or an exception (the fetch
\* rejects, or the body is not JSON)
Upstream(kind, status, body) == [kind |-> kind, status |-> status, body |-> body]
UpstreamOutcomes ==
  { Upstream("json", 200, ListingBody(1)),
    Upstream("json", 200, ListingBody(2)),
    Upstream("json", 500, ErrorBody),
    Upstream("throw", 0, FailedBody),
    Upstream("throw", 502, FailedBody) }
NoUpstream == Upstream("none", 0, FailedBody)

\* mutant of Fresh: an entry of exactly CACHE_DURATION still counts
FreshInclusive(cachedData, cacheTime, now) ==
  IsSome(cachedData) /\ now - cacheTime <= CACHE_DURATION

\* cachedData && Date.now() - cacheTime < CACHE_DURATION
Fresh(cachedData, cacheTime, now) ==
  IsSome(cachedData) /\ now - cacheTime < CACHE_DURATION

\* the responses of the route
PhotosResponse(status, xCache, cacheControl, body) ==
  [status |-> status, xCache |-> xCache, cacheControl |-> cacheControl, body |-> body]
PhotosHit(data) == PhotosResponse(200, Some("HIT"), Some("private, max-age=300"), data)
PhotosMiss(data) == PhotosResponse(200, Some("MISS"), Some("private, max-age=300"), data)
PhotosFailed == PhotosResponse(500, None, None, FailedBody)
NoPhotosResponse == PhotosResponse(0, None, None, FailedBody)

\* one request: where it is (idle, fetching: at the await, done), what the
\* upstream gave it, and its response
PhotosReq(pc, upstream, resp) == [pc |-> pc, upstream |-> upstream, resp |-> resp]
IdleReq == PhotosReq("idle", NoUpstream, NoPhotosResponse)

\* requests being handled at the same time
Slots == {1, 2}
\* most steps of the clock
MaxTicks == 3
\* the steps of the clock
TickSteps == {1, CACHE_DURATION - 1}

PhotosRouteInit ==
  [cachedData |-> None, cacheTime |-> 0, now |-> 0, ticks |-> 0,
   reqs |-> [s \in Slots |-> IdleReq]]

\* GET up to the await: a fresh cache answers, else the upstream is fetched
PhotosGET(s) ==
  /\ photosRoute.reqs[s].pc = "idle"
  /\ photosRoute' =
       IF Fresh(photosRoute.cachedData, photosRoute.cacheTime, photosRoute.now)
         THEN [photosRoute EXCEPT
                 !.reqs[s] = PhotosReq("done", NoUpstream, PhotosHit(Val(photosRoute.cachedData)))]
         ELSE [photosRoute EXCEPT !.reqs[s] = PhotosReq("fetching", NoUpstream, NoPhotosResponse)]
  /\ UNCHANGED <<serveVars, sniffVars, listVars, originVars, photoVars, metaVars>>

\* GET after the await: the parsed body is cached and answered, whatever its
\* status; an exception goes to the catch block
PhotosFetched(s) ==
  /\ photosRoute.reqs[s].pc = "fetching"
  /\ \E up \in UpstreamOutcomes :
       photosRoute' =
         IF up.kind = "throw"
           THEN [photosRoute EXCEPT !.reqs[s] = PhotosReq("done", up, PhotosFailed)]
           ELSE [photosRoute EXCEPT
                   !.cachedData = Some(up.body),
                   !.cacheTime = photosRoute.now,
                   !.reqs[s] = PhotosReq("done", up, PhotosMiss(up.body))]
  /\ UNCHANGED <<serveVars, sniffVars, listVars, originVars, photoVars, metaVars>>

\* the response has been sent
PhotosReturn(s) ==
  /\ photosRoute.reqs[s].pc = "done"
  /\ photosRoute' = [photosRoute EXCEPT !.reqs[s] = IdleReq]
  /\ UNCHANGED <<serveVars, sniffVars, listVars, originVars, photoVars, metaVars>>

\* Date.now() advances
Tick ==
  /\ photosRoute.ticks < MaxTicks
  /\ \E d \in TickSteps :
       photosRoute' = [photosRoute EXCEPT !.now = @ + d, !.ticks = @ + 1]
  /\ UNCHANGED <<serveVars, sniffVars, listVars, originVars, photoVars, metaVars>>

PhotosRouteIdle == photosRoute = PhotosRouteInit

(***************************************************************************)
(* MetadataCache, lib/metadataCache.ts.  `meta` holds the object's fields; *)
(* `metaEnv` holds what surrounds it: localStorage, the fetches in flight, *)
(* the processPreloadQueue loops that are suspended at an await, and a     *)
(* record of what has happened.  JavaScript runs one job at a time, so an  *)
(* action is one run from a call or a wake-up to the next await.           *)
(***************************************************************************)
\* a photo path that is not an array index, e.g. IMG_<n>.jpg
Path(n) == [idx |-> FALSE, n |-> n]
\* a photo path that is the canonical decimal of an integer, e.g. "7"
IndexPath(n) == [idx |-> TRUE, n |-> n]
NoPath == Path(0)

\* a Map without entries
EmptyMap == [x \in {} |-> 0]
MapPut(f, k, v) == (k :> v) @@ f
MapDelete(f, k) == [x \in DOMAIN f \ {k} |-> f[x]]

\* metadata: {} and an object with EXIF fields
EmptyMeta == "empty"
ExifMeta == "exif"
\* a cached value: the metadata, and whether the extraction that produced it
\* had been started before a clear()
CacheEntry(metadata, stale) == [metadata |-> metadata, stale |-> stale]

\* the bound of the persisted object
MaxStored == 1000

\* the persisted object as the sequence of its entries in Object.keys order:
\* integer-like keys first, ascending, then the other keys as inserted
StoredEntry(key, entry) == [key |-> key, entry |-> entry]
StoredKeys(stored) == [i \in DOMAIN stored |-> stored[i].key]
\* the number of entries that come before a new key
RankOf(stored, key) ==
  IF key.idx
    THEN Cardinality({i \in DOMAIN stored : stored[i].key.idx /\ stored[i].key.n < key.n})
    ELSE Len(stored)
\* stored[photoPath] = metadata
StoredPut(stored, key, entry) ==
  IF \E i \in DOMAIN stored : stored[i].key = key
    THEN [i \in DOMAIN stored |->
            IF stored[i].key = key THEN StoredEntry(key, entry) ELSE stored[i]]
    ELSE SubSeq(stored, 1, RankOf(stored, key)) \o <<StoredEntry(key, entry)>>
           \o SubSeq(stored, RankOf(stored, key) + 1, Len(stored))
\* if (keys.length > 1000) delete keys.slice(0, keys.length - 1000)
StoredTrim(stored) ==
  IF Len(stored) > MaxStored
    THEN SubSeq(stored, Len(stored) - MaxStored + 1, Len(stored)) ELSE stored

\* set(photoPath, metadata): the Map, and localStorage when it can be written
SetEntry(m, e, path, entry) ==
  [m |-> [m EXCEPT !.cache = MapPut(m.cache, path, entry)],
   e |-> IF e.writable
           THEN [e EXCEPT !.stored = StoredTrim(StoredPut(e.stored, path, entry))]
           ELSE e]

\* most fetches in flight
MaxFetches == 3
FetchIds == 1..MaxFetches
FreeIds(e) == FetchIds \ DOMAIN e.fetches
Fetch(path, stale) == [path |-> path, stale |-> stale]

\* what one extractMetadata call did
Extracted(m, e, ok, how, fetch, value) ==
  [m |-> m, e |-> e, ok |-> ok, how |-> how, fetch |-> fetch, value |-> value]

\* extractMetadata(photoPath) up to its return: the cached value, the pending
\* promise, or a new request (ok is false when the bound on fetches in flight
\* does not allow one more)
extractMetadata(m, e, path) ==
  IF path \in DOMAIN m.cache
    THEN Extracted(m, e, TRUE, "cached", 0, m.cache[path].metadata)
  ELSE IF path \in DOMAIN m.pendingRequests
    THEN Extracted(m, e, TRUE, "joined", m.pendingRequests[path], EmptyMeta)
  ELSE IF FreeIds(e) = {}
    THEN Extracted(m, e, FALSE, "started", 0, EmptyMeta)
  ELSE
    LET f == CHOOSE f \in FreeIds(e) : \A g \in FreeIds(e) : f <= g
    IN Extracted([m EXCEPT !.pendingRequests = MapPut(m.pendingRequests, path, f)],
                 [e EXCEPT !.fetches = MapPut(e.fetches, f, Fetch(path, FALSE))],
                 TRUE, "started", f, EmptyMeta)

RECURSIVE ExtractAll(_, _, _)
\* chunk.map(path => this.extractMetadata(path)): the calls in order
ExtractAll(m, e, paths) ==
  IF paths = <<>> THEN Extracted(m, e, TRUE, "none", 0, EmptyMeta)
  ELSE LET x == extractMetadata(m, e, Head(paths))
       IN IF x.ok THEN ExtractAll(x.m, x.e, Tail(paths)) ELSE x

\* a processPreloadQueue loop suspended at an await: on the promise of fetch
\* `fetch` (pc "extract") or on the 50 ms timer (pc "sleep")
Loop(pc, fetch) == [pc |-> pc, fetch |-> fetch]
\* what one run of the loop did: loop is <<>> when the loop has ended
Ran(m, e, ok, loop) == [m |-> m, e |-> e, ok |-> ok, loop |-> loop]

RECURSIVE RunLoop(_, _)
\* while (this.preloadQueue.length > 0) { ... } this.isPreloading = false,
\* run up to the next await
RunLoop(m, e) ==
  IF m.preloadQueue = <<>> THEN Ran([m EXCEPT !.isPreloading = FALSE], e, TRUE, <<>>)
  ELSE
    LET path == Head(m.preloadQueue)
        shifted == [m EXCEPT !.preloadQueue = Tail(m.preloadQueue)]
    IN IF path \in DOMAIN shifted.cache THEN RunLoop(shifted, e)
       ELSE LET x == extractMetadata(shifted, e, path)
            IN Ran(x.m, x.e, x.ok, <<Loop("extract", x.fetch)>>)

\* processPreloadQueue() up to its first await
processPreloadQueue(m, e) ==
  IF m.preloadQueue = <<>> THEN Ran([m EXCEPT !.isPreloading = FALSE], e, TRUE, <<>>)
  ELSE RunLoop([m EXCEPT !.isPreloading = TRUE], e)

\* mutant of StartsLoop: the loop is started on every call
StartsLoopAlways(m) == TRUE

\* mutant of StartsLoop: the loop is never started
StartsLoopNever(m) == FALSE

\* if (!this.isPreloading) this.processPreloadQueue()
StartsLoop(m) == ~m.isPreloading

\* photoPaths.filter(path => !this.has(path) && !this.preloadQueue.includes(path))
NewPaths(m, photoPaths) ==
  SelectSeq(photoPaths,
            LAMBDA path : path \notin DOMAIN m.cache /\ path \notin Range(m.preloadQueue))

\* the last thing that happened: the operation, its path, how it went, and
\* the value it gave
Happened(op, path, how, value) == [op |-> op, path |-> path, how |-> how, value |-> value]

\* calls made from outside, most
MaxMetaCalls == 3
\* most paths in one argument list
MaxArgs == 2
MetaPaths == {Path(1), Path(2)}
ArgLists == SeqsUpTo(MetaPaths, MaxArgs)

MetaInit ==
  [cache |-> EmptyMap, pendingRequests |-> EmptyMap, preloadQueue |-> <<>>,
   isPreloading |-> FALSE]
MetaEnvInit ==
  [stored |-> <<>>, writable |-> TRUE, fetches |-> EmptyMap, loops |-> <<>>,
   last |-> Happened("none", NoPath, "none", EmptyMeta), failed |-> {}, wanted |-> {},
   budget |-> 0]

\* a call of extractMetadata(path)
ExtractMetadata ==
  /\ metaEnv.budget > 0
  /\ \E path \in MetaPaths :
       LET x == extractMetadata(meta, metaEnv, path)
       IN /\ x.ok
          /\ meta' = x.m
          /\ metaEnv' = [x.e EXCEPT !.budget = @ - 1,
                                    !.last = Happened("extract", path, x.how, x.value)]
  /\ UNCHANGED <<serveVars, sniffVars, listVars, originVars, photoVars, photosRoute>>

\* a call of preloadBatch(photoPaths), up to its first await (the lists are
\* shorter than one chunk)
PreloadBatch ==
  /\ metaEnv.budget > 0
  /\ \E photoPaths \in ArgLists :
       LET uncached == SelectSeq(photoPaths, LAMBDA path : path \notin DOMAIN meta.cache)
           x == ExtractAll(meta, metaEnv, uncached)
       IN /\ x.ok
          /\ meta' = x.m
          /\ metaEnv' = [x.e EXCEPT !.budget = @ - 1,
                                    !.last = Happened("preloadBatch", NoPath, "none", EmptyMeta)]
  /\ UNCHANGED <<serveVars, sniffVars, listVars, originVars, photoVars, photosRoute>>

\* a call of queueForPreload(photoPaths)
QueueForPreload ==
  /\ metaEnv.budget > 0
  /\ \E photoPaths \in ArgLists :
       LET queued == [meta EXCEPT !.preloadQueue = @ \o NewPaths(meta, photoPaths)]
           r == IF StartsLoop(meta) THEN processPreloadQueue(queued, metaEnv)
                ELSE Ran(queued, metaEnv, TRUE, <<>>)
       IN /\ r.ok
          /\ meta' = r.m
          /\ metaEnv' = [r.e EXCEPT !.budget = @ - 1,
                                    !.loops = @ \o r.loop,
                                    !.wanted = @ \cup Range(photoPaths),
                                    !.last = Happened("queueForPreload", NoPath, "none", EmptyMeta)]
  /\ UNCHANGED <<serveVars, sniffVars, listVars, originVars, photoVars, photosRoute>>

\* a call of clear(); the fetches in flight go on
Clear ==
  /\ metaEnv.budget > 0
  /\ meta' = [meta EXCEPT !.cache = EmptyMap, !.pendingRequests = EmptyMap,
                          !.preloadQueue = <<>>]
  /\ metaEnv' = [metaEnv EXCEPT
                   !.stored = <<>>,
                   !.fetches = [f \in DOMAIN @ |-> Fetch(@[f].path, TRUE)],
                   !.wanted = {},
                   !.budget = @ - 1,
                   !.last = Happened("clear", NoPath, "none", EmptyMeta)]
  /\ UNCHANGED <<serveVars, sniffVars, listVars, originVars, photoVars, photosRoute>>

\* how a request ends: EXIF read, the fetch rejected, a non-OK status, or
\* ExifReader.load throwing
FetchOutcomes == {"exif", "rejected", "notOk", "parseError"}

\* mutant of MetadataOf: a failure leaves the fields of the last read
MetadataOfAllExif(outcome) == ExifMeta

MetadataOf(outcome) == IF outcome = "exif" THEN ExifMeta ELSE EmptyMeta

\* the request of fetch f runs to its end: set, and finally
\* pendingRequests.delete; the loops awaiting it go on to their timer
FetchComplete ==
  \E f \in DOMAIN metaEnv.fetches, outcome \in FetchOutcomes :
    LET path == metaEnv.fetches[f].path
        entry == CacheEntry(MetadataOf(outcome), metaEnv.fetches[f].stale)
        s == SetEntry(meta, metaEnv, path, entry)
    IN /\ meta' = [s.m EXCEPT !.pendingRequests = MapDelete(@, path)]
       /\ metaEnv' = [s.e EXCEPT
                        !.fetches = MapDelete(@, f),
                        !.loops = [i \in DOMAIN @ |->
                                     IF @[i] = Loop("extract", f) THEN Loop("sleep", 0) ELSE @[i]],
                        !.failed = IF outcome = "exif" THEN @ ELSE @ \cup {path},
                        !.last = Happened("complete", path, outcome, entry.metadata)]
       /\ UNCHANGED <<serveVars, sniffVars, listVars, originVars, photoVars, photosRoute>>

RemoveAt(q, i) == SubSeq(q, 1, i - 1) \o SubSeq(q, i + 1, Len(q))

\* the 50 ms timer of a loop fires: the loop goes round
Timer ==
  \E i \in DOMAIN metaEnv.loops :
    /\ metaEnv.loops[i].pc = "sleep"
    /\ LET r == RunLoop(meta, metaEnv)
       IN /\ r.ok
          /\ meta' = r.m
          /\ metaEnv' = [r.e EXCEPT
                           !.loops = IF r.loop = <<>> THEN RemoveAt(@, i)
                                     ELSE [@ EXCEPT ![i] = r.loop[1]],
                           !.last = Happened("timer", NoPath, "none", EmptyMeta)]
    /\ UNCHANGED <<serveVars, sniffVars, listVars, originVars, photoVars, photosRoute>>

\* the paths set() is called with: stored ones, new ones, and an integer-like one
SetPaths == {Path(1), Path(2), Path(MaxStored + 1), Path(MaxStored + 2), IndexPath(7)}

\* a call of set(photoPath, metadata)
MetaSet ==
  /\ metaEnv.budget > 0
  /\ \E path \in SetPaths, metadata \in {EmptyMeta, ExifMeta} :
       LET s == SetEntry(meta, metaEnv, path, CacheEntry(metadata, FALSE))
       IN /\ meta' = s.m
          /\ metaEnv' = [s.e EXCEPT !.budget = @ - 1,
                                    !.last = Happened("set", path, "none", metadata)]
  /\ UNCHANGED <<serveVars, sniffVars, listVars, originVars, photoVars, photosRoute>>

\* loadFromLocalStorage(): every persisted entry goes into the Map
LoadedEntry(stored, path) == stored[CHOOSE i \in DOMAIN stored : stored[i].key = path].entry
LoadFromLocalStorage(stored) ==
  [path \in Range(StoredKeys(stored)) |-> LoadedEntry(stored, path)]

MetaIdle == meta = MetaInit /\ metaEnv = MetaEnvInit
CacheIdle == PhotosRouteIdle /\ MetaIdle

(***************************************************************************)
(* Specification of the serve routes.                                      *)
(***************************************************************************)
NoListed ==
  [route |-> "none", req |-> NoListRequest, lists |-> 0, err |-> None, matched |-> 0,
   resp |-> NoListResponse]
SniffIdle == sniffKey = <<>> /\ sniffBuf = <<>> /\ sniffOut = None
ListIdle == blobs = <<>> /\ listLast = NoListed /\ walk = NoWalk

Init ==
  /\ store = [k \in StoreKeys |-> None]
  /\ last = Handled("none", NoRequest, 0, None, None, NoResponse)
  /\ SniffIdle
  /\ ListIdle
  /\ OriginIdle
  /\ PhotoIdle
  /\ CacheIdle

Next == ServeGET \/ StreamGET \/ SharpGET \/ Upload \/ Delete

Spec == Init /\ [][Next]_vars


(***************************************************************************)
(* Specification of the sniffer alone: getContentType applied to a key and *)
(* a payload drawn from bounded sets.                                      *)
(***************************************************************************)
\* bytes the free payloads are built from: FF D8 (JPEG), 89 50 (PNG), 'W'
SniffBytes == {255, 216, 137, 80, 87}

RIFF == <<82, 73, 70, 70>>
\* the payloads given to the sniffer: every short sequence over SniffBytes, and
\* whole signatures: JPEG, PNG, a RIFF container with WEBP at offsets 8..11,
\* WEBP at offset 0, WEBP at offset 1, GIF, a truncated PNG signature
SniffPayloads ==
  SeqsUpTo(SniffBytes, MaxSniffLen) \cup
  { <<255, 216, 255, 224>>,
    <<137, 80, 78, 71, 13, 10, 26, 10>>,
    RIFF \o <<36, 0, 0, 0>> \o WEBP,
    WEBP \o <<0, 0>>,
    <<0>> \o WEBP,
    <<71, 73, 70, 56>>,
    <<137, 80, 78>> }

SniffKeys ==
  { K_a_png, K_p_b, K_x, K_png, K_c_JPG,
    <<"d", ".", "w", "e", "b", "p">>, <<"e", ".", "g", "i", "f">>,
    <<"f", ".", "j", "p", "e", "g">>, <<"a", ".", "b", ".", "j", "p", "g">>,
    <<"g", ".">>, <<"G", "I", "F">>, <<"h", ".", "t", "x", "t">> }

ServeIdle ==
  /\ store = [k \in StoreKeys |-> None]
  /\ last = Handled("none", NoRequest, 0, None, None, NoResponse)

InitSniff ==
  /\ ServeIdle
  /\ ListIdle
  /\ OriginIdle
  /\ PhotoIdle
  /\ CacheIdle
  /\ sniffKey \in SniffKeys
  /\ sniffBuf \in SniffPayloads
  /\ sniffOut = None

\* the call getContentType(key, buffer)
Sniff ==
  /\ sniffOut = None
  /\ sniffOut' = Some(getContentType(sniffKey, sniffBuf))
  /\ UNCHANGED <<sniffKey, sniffBuf, serveVars, listVars, utilVars>>

NextSniff == Sniff

SpecSniff == InitSniff /\ [][NextSniff]_vars


(***************************************************************************)
(* Properties of the serve routes (specification Spec).                    *)
(***************************************************************************)
\* the character class of asset keys: letters, digits, '.', '_', '-', '/'
AssetKeyChar(c) == KeyChar(c) \/ c = "/"
ValidAssetKey(key) == key # <<>> /\ \A i \in DOMAIN key : AssetKeyChar(key[i])

ServeRoutes == {"serve", "stream", "sharp"}
HasKey == last.route \in ServeRoutes /\ ~MissingKey(last.req)

\* C1: a serve request whose key is non-empty and has a character outside
\* [A-Za-z0-9._/-] is answered 400 and reads nothing from the store.
C1_InvalidKeyRejected ==
  (HasKey /\ ~ValidAssetKey(Val(last.req.key)))
    => (last.resp.status = 400 /\ last.reads = 0)

\* C2: a valid key that the store reports as absent is answered 404, never
\* 500, by route.ts and by the resizing route.
C2_AbsentKeyIs404 ==
  (/\ last.route \in {"serve", "sharp"}
   /\ HasKey
   /\ ValidAssetKey(Val(last.req.key))
   /\ last.reads = 1 /\ last.err = None /\ last.got = None)
    => last.resp.status = 404

C2_Witness ==
  /\ last.route = "serve"
  /\ last.req.key = Some(K_p_b)
  /\ last.reads = 1 /\ last.err = None /\ last.got = None
  /\ last.resp.status = 404

\* C3: a serve request whose key parameter is absent or empty is answered 400
\* and reads nothing from the store.
C3_MissingKeyIs400 ==
  (last.route \in ServeRoutes /\ (last.req.key = None \/ last.req.key = Some(<<>>)))
    => (last.resp.status = 400 /\ last.reads = 0)

C3_Witness ==
  /\ last.route = "serve"
  /\ last.req.key = Some(<<>>)
  /\ last.resp.status = 400
  /\ store[K_a_png] # None

\* C4: a serve request for a key that holds bytes B is answered 200 with a
\* body that is exactly B, the bytes the store held at the request's read.
C4_ServeRoundTrip ==
  (last.route \in {"serve", "stream"} /\ IsSome(last.got))
    => (last.resp.status = 200 /\ last.resp.body = RawBody(Val(last.got).bytes))

\* does the blob's metadata carry a contentType
CarriesType(blob) == IsSome(blob.contentType) /\ Val(blob.contentType) # ""

\* C5: when the blob's metadata carries a contentType, the Content-Type of the
\* 200 response is that value.
C5_MetadataTypeWins ==
  (/\ last.route \in {"serve", "stream"}
   /\ last.resp.status = 200
   /\ IsSome(last.got) /\ CarriesType(Val(last.got)))
    => last.resp.contentType = Val(Val(last.got).contentType)

(***************************************************************************)
(* Properties of the sniffer (specification SpecSniff).                    *)
(***************************************************************************)
JpegSig == <<255, 216>>
PngSig == <<137, 80, 78, 71>>
\* "WEBP" anywhere within the first 12 bytes
WebpWithin12(b) == Includes(SubSeq(b, 1, Min(12, Len(b))), WEBP)
Sniffed == IsSome(sniffOut)

\* C6: a payload without JPEG or PNG signature that has "WEBP" within its
\* first 12 bytes is image/webp, whatever the key's extension.
C6_WebpWithin12 ==
  (Sniffed /\ ~StartsWith(sniffBuf, JpegSig) /\ ~StartsWith(sniffBuf, PngSig)
     /\ WebpWithin12(sniffBuf))
    => Val(sniffOut) = "image/webp"

\* C7: a payload starting FF D8 is image/jpeg and one starting 89 50 4E 47 is
\* image/png, whatever the key's extension.
C7_SignatureWins ==
  Sniffed =>
    /\ StartsWith(sniffBuf, JpegSig) => Val(sniffOut) = "image/jpeg"
    /\ StartsWith(sniffBuf, PngSig) => Val(sniffOut) = "image/png"

C7_Witness ==
  /\ sniffKey = K_a_png
  /\ StartsWith(sniffBuf, JpegSig)
  /\ sniffOut = Some("image/jpeg")

\* the suffix after the last '.', None for a key without '.'
Suffix(key) ==
  IF "." \in Range(key) THEN Some(SplitPop(key, ".")) ELSE None

\* C8: a payload with no recognised signature gets the table value of the
\* key's suffix after its last '.' (compared without regard to case), and
\* application/octet-stream in every other case, keys without '.' included.
C8_FallbackTable ==
  (Sniffed /\ ~StartsWith(sniffBuf, JpegSig) /\ ~StartsWith(sniffBuf, PngSig)
     /\ ~WebpWithin12(sniffBuf))
    => Val(sniffOut) =
         IF IsSome(Suffix(sniffKey))
           THEN ExtensionType(ToLowerCase(Val(Suffix(sniffKey))))
           ELSE "application/octet-stream"


(***************************************************************************)
(* Specification of the listing route: a store of fixed content, listing   *)
(* requests with any parameters, and a caller paging through.              *)
(***************************************************************************)
\* entries under A/ in the largest store
BigStore == 202
\* entries under B/ (which no request asks for by prefix)
OtherEntries == 2
StoreSizes == {0, 3, 130, BigStore}

InitList ==
  /\ ServeIdle
  /\ SniffIdle
  /\ OriginIdle
  /\ PhotoIdle
  /\ CacheIdle
  /\ \E n \in StoreSizes : blobs = EntriesOf(PrefixA, n) \o EntriesOf(PrefixB, OtherEntries)
  /\ listLast = NoListed
  /\ walk = NoWalk

NextList == ListGET \/ PhotosListGET \/ WalkStart \/ WalkNext

SpecList == InitList /\ [][NextList]_vars


(***************************************************************************)
(* Properties of the listing route (specification SpecList).               *)
(***************************************************************************)
\* C9: whatever limit and page the client sends, one listing response holds
\* at most 200 assets.
C9_AtMost200 ==
  listLast.resp.status = 200 => Len(listLast.resp.assets) <= MaxLimit

NoDuplicates(q) == \A i, j \in DOMAIN q : i # j => q[i] # q[j]
\* the keys under the prefix the caller pages through, in the store's order
WalkKeys == Keys(StoreList(blobs, PrefixOf(walk.req)))
\* the limit the caller asks for
WalkLimit == LimitOf(walk.req).v
CeilDiv(a, b) == (a + b - 1) \div b

\* every key at most once so far; at the end, every key exactly once; and
\* 130 keys with limit 60 are done with the third call
Traversal ==
  /\ NoDuplicates(walk.collected)
  /\ walk.done => walk.collected = WalkKeys
  /\ (Len(WalkKeys) = 130 /\ WalkLimit = 60 /\ walk.calls = 3) => walk.done

OffsetSlice(q, offset, limit) ==
  SubSeq(q, Max(offset, 0) + 1, Min(Max(offset + limit, 0), Len(q)))
\* the entries that match the prefix of the last listing request
ListMatches == StoreList(blobs, PrefixOf(listLast.req))
\* offset = (page - 1) * limit of the last listing request, when both parse
ListOffset == (PageOf(listLast.req).v - 1) * LimitOf(listLast.req).v
ListParsed == ~PageOf(listLast.req).nan /\ ~LimitOf(listLast.req).nan

\* C11: the records of a listing response are the contiguous slice
\* allMatches[offset : offset + limit] in the store's order, hasMore is true
\* exactly when allMatches.length > offset + limit, and nextCursor is the key
\* of the last returned record when hasMore is true, null when it is false.
C11_SliceAndCursor ==
  (listLast.route = "list" /\ listLast.resp.status = 200 /\ ListParsed) =>
    LET limit == LimitOf(listLast.req).v
        records == OffsetSlice(ListMatches, ListOffset, limit)
        assets == listLast.resp.assets
    IN /\ Keys(assets) = Keys(records)
       /\ listLast.resp.hasMore <=> (Len(ListMatches) > ListOffset + limit)
       /\ listLast.resp.hasMore =>
            (Len(assets) > 0 /\ listLast.resp.nextCursor = Some(assets[Len(assets)].key))
       /\ ~listLast.resp.hasMore => listLast.resp.nextCursor = None

\* C12: the total of a listing response is the number of keys that matched
\* the prefix when the store was listed, whatever limit, page and cursor are.
C12_TotalIsMatchCount ==
  (listLast.route = "list" /\ listLast.resp.status = 200) =>
    /\ listLast.resp.total = listLast.matched
    /\ listLast.resp.total = Len(ListMatches)

C12_Witness ==
  /\ listLast.route = "list"
  /\ listLast.resp.status = 200
  /\ listLast.req.prefix = Some(PrefixA)
  /\ listLast.req.limit = Some(<<"6", "0">>)
  /\ listLast.req.cursor # None
  /\ Len(listLast.resp.assets) = 60
  /\ listLast.resp.total = 130
  /\ Len(blobs) = 130 + OtherEntries

(***************************************************************************)
(* Further properties of the serve routes (specification Spec).            *)
(***************************************************************************)
\* C13: a failure while serving is answered 500 with a JSON error body that
\* is the same for every cause: the body has a fixed error text and nothing
\* that comes from the exception (no details).
C13_GenericErrorBody ==
  (last.route \in ServeRoutes /\ last.resp.status = 500) =>
    /\ IsSome(last.resp.json)
    /\ Val(last.resp.json).details = None
    /\ Val(last.resp.json).error \in {"Internal server error", "Failed to serve asset"}

\* the routes that pass the stored bytes through
PassRoutes == {"serve", "stream"}
LongLivedImmutable(h) == h \in {"public, max-age=31536000, immutable",
                                "public, s-maxage=31536000, immutable"}

\* C14: a 200 serve response carries a long-lived immutable browser cache
\* header, a long-lived immutable CDN cache header and a purge tag equal to
\* the requested key; a 400, 404 or 500 response carries none of them.
C14_CacheHeaders ==
  last.route \in PassRoutes =>
    /\ last.resp.status = 200 =>
         /\ IsSome(last.resp.cacheControl) /\ LongLivedImmutable(Val(last.resp.cacheControl))
         /\ IsSome(last.resp.cdnCacheControl)
         /\ LongLivedImmutable(Val(last.resp.cdnCacheControl))
         /\ last.resp.cacheTag = last.req.key
    /\ last.resp.status \in {400, 404, 500} =>
         /\ last.resp.cacheControl = None
         /\ last.resp.cdnCacheControl = None
         /\ last.resp.cacheTag = None

\* the final '/'-delimited segment of the key, the whole key when it has no '/'
FinalSegment(key) == SubSeq(key, LastIndexOf(key, "/") + 1, Len(key))

\* C15: a 200 serve response carries Content-Disposition: attachment with the
\* final '/'-delimited segment of the key as filename exactly when the request
\* has download=1, and no Content-Disposition otherwise.
C15_DownloadDisposition ==
  (last.route \in PassRoutes /\ last.resp.status = 200) =>
    last.resp.disposition =
      IF last.req.download = Some(<<"1">>)
        THEN Some(FinalSegment(Val(last.req.key))) ELSE None

(***************************************************************************)
(* Specification of the origin helper: one call of a resolver in an        *)
(* execution context drawn from bounded sets.                              *)
(***************************************************************************)
Windows == {None, Some(<<"https://app.example">>)}
Ports == {None, Some(<<"3000">>), Some(<<>>)}
SiteUrls == {None, Some(<<>>), Some(<<"https://site.example">>)}
DeployUrls == {None, Some(<<"https://deploy.example">>)}
PrimeUrls == {None, Some(<<"https://preview.example">>)}
ForwardedProtos == {None, Some(<<"http">>)}
ForwardedHosts == {None, Some(<<"fwd.example">>)}
Hosts == {None, Some(<<"internal:3000">>)}

InitOrigin ==
  /\ ServeIdle
  /\ SniffIdle
  /\ ListIdle
  /\ PhotoIdle
  /\ CacheIdle
  /\ \E window \in Windows, port \in Ports, siteUrl \in SiteUrls, url \in DeployUrls,
        prime \in PrimeUrls, proto \in ForwardedProtos, fhost \in ForwardedHosts,
        host \in Hosts, headersFail \in BOOLEAN :
       originCtx = Context(window, Env(port, siteUrl, url, prime),
                           Headers(proto, fhost, host), headersFail)
  /\ originOut = NoResolved

NextOrigin == GetOrigin \/ GetClientOrigin \/ PlaybookOrigin

SpecOrigin == InitOrigin /\ [][NextOrigin]_vars

ServerSide == originCtx.window = None
SiteUrlSet ==
  IsSome(originCtx.env.NEXT_PUBLIC_SITE_URL) /\ Val(originCtx.env.NEXT_PUBLIC_SITE_URL) # <<>>
NoForwarded ==
  originCtx.hdrs.xForwardedProto = None /\ originCtx.hdrs.xForwardedHost = None

\* C16: server-side, when a forwarded-host header is present the resolved
\* origin is <forwarded proto>://<forwarded host>, also when a site URL is
\* configured: forwarded headers win over the configured URL.
C16_ForwardedFirst ==
  (/\ originOut.resolver \in {"getOrigin", "playbook"}
   /\ ServerSide
   /\ ~originCtx.headersFail
   /\ IsSome(originCtx.hdrs.xForwardedProto)
   /\ IsSome(originCtx.hdrs.xForwardedHost))
    => originOut.origin =
         Val(originCtx.hdrs.xForwardedProto) \o <<"://">> \o Val(originCtx.hdrs.xForwardedHost)

\* the resolvers of app/utils/getOrigin.ts return a non-empty origin: the
\* browser location's origin in a browser context and, on the server without
\* forwarded headers, the configured site URL if it is set and non-empty,
\* else `dflt`
ResolvesWithDefault(dflt) ==
  originOut.resolver \in {"getOrigin", "getClientOrigin"} =>
    /\ originOut.origin # <<>>
    /\ ~ServerSide => originOut.origin = Val(originCtx.window)
    /\ (ServerSide /\ NoForwarded) =>
         originOut.origin =
           IF SiteUrlSet THEN Val(originCtx.env.NEXT_PUBLIC_SITE_URL) ELSE dflt

MaxSegments == 3

Stamp14 == <<"2", "0", "2", "5", "0", "8", "0", "7", "1", "8", "0", "5", "1", "0">>
\* the segments keys are built from: an event tag, a 14-digit timestamp, a
\* 13-digit and a 15-digit run, the two status words, a 14-character segment
\* with a letter, and the empty segment
KeySegments ==
  { <<"2", "0", "2", "5", "F", "R", "E", "D">>,
    Stamp14,
    SubSeq(Stamp14, 1, 13),
    Stamp14 \o <<"9">>,
    <<"U", "N">> \o PICKED,
    PICKED,
    SubSeq(Stamp14, 1, 13) \o <<"x">>,
    <<>> }

RECURSIVE JoinSegs(_)
\* segments.join('_')
JoinSegs(segs) ==
  IF Len(segs) = 1 THEN segs[1] ELSE segs[1] \o <<"_">> \o JoinSegs(Tail(segs))

\* file names of 1..MaxSegments segments, and one without '_' at all
PhotoNames ==
  {JoinSegs(segs) : segs \in SeqsUpTo(KeySegments, MaxSegments) \ {<<>>}}
    \cup {<<"n", "o", "-", "t", "i", "m", "e", "s", "t", "a", "m", "p">>}
\* keys as the photos page lists them, and under the event gallery's prefix
PhotoKeys == PhotoNames \cup {EventPrefix \o name : name \in PhotoNames}

InitPhoto ==
  /\ ServeIdle
  /\ SniffIdle
  /\ ListIdle
  /\ OriginIdle
  /\ CacheIdle
  /\ photoKey \in PhotoKeys
  /\ photoOut = NoPhoto

NextPhoto == PhotosFetch \/ EventFetch

SpecPhoto == InitPhoto /\ [][NextPhoto]_vars

IsDigit(c) == c \in Range(DigitSeq)
\* exactly 14 ASCII digits
IsStamp(seg) == Len(seg) = 14 /\ \A i \in DOMAIN seg : IsDigit(seg[i])
\* the first '_'-delimited segment of exactly 14 digits, <<>> when there is none
FirstStamp(key) ==
  LET parts == Split(key, "_")
  IN IF \E i \in DOMAIN parts : IsStamp(parts[i])
       THEN parts[CHOOSE i \in DOMAIN parts :
                    IsStamp(parts[i]) /\ \A j \in 1..(i - 1) : ~IsStamp(parts[j])]
       ELSE <<>>

Derived == photoOut.gallery \in {"photos", "event"}

\* C18: the timestamp derived from a key is its first '_'-delimited segment
\* of exactly 14 ASCII digits, and empty when no segment qualifies.
C18_FirstStampSegment ==
  Derived => photoOut.timestamp = FirstStamp(photoOut.key)

\* C19: a key containing UNPICKED gets status unpicked; status picked is given
\* only to keys that contain PICKED and do not contain UNPICKED.
C19_UnpickedFirst ==
  Derived =>
    /\ Includes(photoOut.key, <<"U", "N">> \o PICKED) => photoOut.status = "unpicked"
    /\ photoOut.status = "picked" =>
         (Includes(photoOut.key, PICKED) /\ ~Includes(photoOut.key, <<"U", "N">> \o PICKED))

\* C20: when the store's list call fails, the listing handler answers 500
\* with a JSON error body, returns no asset list, and has called the store's
\* list operation exactly once.
C20_ListFailure ==
  (listLast.route \in {"list", "photos"} /\ IsSome(listLast.err)) =>
    /\ listLast.resp.status = 500
    /\ IsSome(listLast.resp.error)
    /\ listLast.resp.assets = <<>>
    /\ listLast.lists = 1

C20_Witness ==
  /\ listLast.route = "list"
  /\ listLast.err = Some("fetch failed")
  /\ listLast.req.prefix = Some(PrefixA)
  /\ listLast.matched = 130
  /\ listLast.resp.status = 500
  /\ listLast.lists = 1

InitPhotosRoute ==
  /\ ServeIdle
  /\ SniffIdle
  /\ ListIdle
  /\ OriginIdle
  /\ PhotoIdle
  /\ MetaIdle
  /\ photosRoute = PhotosRouteInit

NextPhotosRoute ==
  \/ \E s \in Slots : PhotosGET(s)
  \/ \E s \in Slots : PhotosFetched(s)
  \/ \E s \in Slots : PhotosReturn(s)
  \/ Tick

SpecPhotosRoute == InitPhotosRoute /\ [][NextPhotosRoute]_vars

\* a cached payload exists and strictly less than 5 minutes have passed
Within5Minutes ==
  photosRoute.cachedData # None /\ photosRoute.now - photosRoute.cacheTime < 300000

\* the step of slot s that takes up a GET: answered from the cache, with no
\* upstream fetch and the cache as it was, exactly when Within5Minutes
HitRule(s) ==
  (photosRoute.reqs[s].pc = "idle" /\ photosRoute'.reqs[s].pc # "idle") =>
    IF Within5Minutes
      THEN /\ photosRoute'.reqs[s].pc = "done"
           /\ photosRoute'.reqs[s].resp.xCache = Some("HIT")
           /\ photosRoute'.reqs[s].resp.body = Val(photosRoute.cachedData)
           /\ photosRoute'.cachedData = photosRoute.cachedData
           /\ photosRoute'.cacheTime = photosRoute.cacheTime
      ELSE photosRoute'.reqs[s].pc = "fetching"

\* the step of slot s that ends a fetch with a parsed body: payload and
\* timestamp replaced, response marked MISS
Replaced(s) ==
  /\ photosRoute'.reqs[s].resp.xCache = Some("MISS")
  /\ photosRoute'.cachedData = Some(photosRoute'.reqs[s].resp.body)
  /\ photosRoute'.cachedData = Some(photosRoute'.reqs[s].upstream.body)
  /\ photosRoute'.cacheTime = photosRoute.now

EndsFetch(s) == photosRoute.reqs[s].pc = "fetching" /\ photosRoute'.reqs[s].pc = "done"

\* C22 as stated: HIT only from a payload younger than 5 minutes; in every
\* other case the upstream is fetched, payload and timestamp are replaced by
\* the fetched result and the response is marked MISS.
C22_HitOrMiss ==
  [][\A s \in Slots : HitRule(s) /\ (EndsFetch(s) => Replaced(s))]_vars

\* C22 as amended: when the fetch or the parse throws, the response is a 500
\* without X-Cache and the cache is left as it was.
C22_HitMissOrFail ==
  [][\A s \in Slots :
       /\ HitRule(s)
       /\ EndsFetch(s) =>
            IF photosRoute'.reqs[s].upstream.kind = "throw"
              THEN /\ photosRoute'.reqs[s].resp.status = 500
                   /\ photosRoute'.reqs[s].resp.xCache = None
                   /\ photosRoute'.cachedData = photosRoute.cachedData
                   /\ photosRoute'.cacheTime = photosRoute.cacheTime
              ELSE Replaced(s)]_vars

\* a HIT from a payload one millisecond short of 5 minutes old
C22_Witness ==
  /\ photosRoute.reqs[1].pc = "done"
  /\ photosRoute.reqs[1].resp.xCache = Some("HIT")
  /\ photosRoute.now - photosRoute.cacheTime = 299999
  /\ photosRoute.reqs[2].pc = "fetching"

\* C23: the cache only ever holds the payload of a successful upstream
\* listing; an upstream error is never stored.
C23_OnlyListingsCached ==
  IsSome(photosRoute.cachedData) => Val(photosRoute.cachedData).kind = "listing"

(***************************************************************************)
(* Specification of MetadataCache: calls of extractMetadata, preloadBatch, *)
(* queueForPreload and clear in any order, interleaved with the ends of    *)
(* the fetches and the timers of the background loop.                      *)
(***************************************************************************)
InitMeta ==
  /\ ServeIdle
  /\ SniffIdle
  /\ ListIdle
  /\ OriginIdle
  /\ PhotoIdle
  /\ PhotosRouteIdle
  /\ meta = MetaInit
  /\ metaEnv = [MetaEnvInit EXCEPT !.budget = MaxMetaCalls]

NextMeta ==
  \/ ExtractMetadata
  \/ PreloadBatch
  \/ QueueForPreload
  \/ Clear
  \/ FetchComplete
  \/ Timer

SpecMeta == InitMeta /\ [][NextMeta]_vars

\* the fetches in flight for a path
InFlight(path) == {f \in DOMAIN metaEnv.fetches : metaEnv.fetches[f].path = path}

\* C24: at most one fetch per path is in flight, and pendingRequests holds an
\* entry for a path exactly while a fetch for it is in flight, the entry being
\* that fetch (which a caller asking for the path is handed).
C24_SingleFlight ==
  \A path \in MetaPaths :
    /\ Cardinality(InFlight(path)) <= 1
    /\ path \in DOMAIN meta.pendingRequests <=> InFlight(path) # {}
    /\ path \in DOMAIN meta.pendingRequests => meta.pendingRequests[path] \in InFlight(path)

\* C25: the cache and the persisted copy hold no entry produced by an
\* extraction that was started before a clear(): a request in flight at the
\* clear does not put its result back.
C25_ClearIsFinal ==
  /\ \A path \in DOMAIN meta.cache : ~meta.cache[path].stale
  /\ \A i \in DOMAIN metaEnv.stored : ~metaEnv.stored[i].entry.stale

FailureOutcomes == {"rejected", "notOk", "parseError"}

\* a request that ends in failure resolves with empty metadata, which is then
\* the cached value of the path, and the path's pendingRequests entry is gone
FailureIsCached ==
  (metaEnv.last.op = "complete" /\ metaEnv.last.how \in FailureOutcomes) =>
    /\ metaEnv.last.value = "empty"
    /\ metaEnv.last.path \in DOMAIN meta.cache
    /\ meta.cache[metaEnv.last.path].metadata = "empty"
    /\ metaEnv.last.path \notin DOMAIN meta.pendingRequests

\* the step is a call extractMetadata(path)
IsExtractOf(path) ==
  /\ metaEnv'.budget = metaEnv.budget - 1
  /\ metaEnv'.last.op = "extract"
  /\ metaEnv'.last.path = path

\* the call returned the cached value and started no fetch
ServedFromCache(value) ==
  /\ metaEnv'.last.how = "cached"
  /\ metaEnv'.last.value = value
  /\ metaEnv'.fetches = metaEnv.fetches
  /\ meta'.pendingRequests = meta.pendingRequests

C27_QueueDistinct ==
  /\ []NoDuplicates(meta.preloadQueue)
  /\ [][\A i \in DOMAIN meta'.preloadQueue :
          (metaEnv'.last.op = "queueForPreload" /\ i > Len(meta.preloadQueue))
            => meta'.preloadQueue[i] \notin DOMAIN meta.cache]_vars

\* C28: at most one processPreloadQueue loop is active, isPreloading is true
\* exactly while one is, and the queue is empty whenever isPreloading is
\* false (between jobs, when no call is executing).
C28_OneLoop ==
  /\ Len(metaEnv.loops) <= 1
  /\ meta.isPreloading <=> metaEnv.loops # <<>>
  /\ ~meta.isPreloading => meta.preloadQueue = <<>>

\* the loop asleep while two more paths wait that were queued behind it
C28_Witness ==
  /\ Len(metaEnv.loops) = 1
  /\ metaEnv.loops[1].pc = "sleep"
  /\ meta.isPreloading
  /\ Len(meta.preloadQueue) = 2
  /\ metaEnv.budget = MaxMetaCalls - 2

(***************************************************************************)
(* MetadataCache with its scheduling: a fetch in flight ends, and a timer  *)
(* that is set fires.                                                      *)
(***************************************************************************)
SpecMetaLive == InitMeta /\ [][NextMeta]_vars /\ WF_vars(FetchComplete) /\ WF_vars(Timer)

\* the background worker has stopped
Stopped == metaEnv.loops = <<>> /\ meta.preloadQueue = <<>> /\ ~meta.isPreloading

\* C29: once calls stop, every path given to queueForPreload is in the end
\* cached unless a clear() removed it, and the worker stops with the queue
\* empty and isPreloading false.
C29_PreloadFinishes ==
  <>[](Stopped /\ metaEnv.wanted \subseteq DOMAIN meta.cache)

\* the worker stopped after having cached both paths
C29_Witness ==
  /\ Stopped
  /\ metaEnv.wanted = MetaPaths
  /\ DOMAIN meta.cache = MetaPaths
  /\ metaEnv.last.op = "timer"

(***************************************************************************)
(* Specification of MetadataCache.set over a persisted object of a given   *)
(* size: the module is loaded with localStorage holding n entries, and     *)
(* set() is called.                                                        *)
(***************************************************************************)
\* the sizes of the persisted object at load
StoredSizes == {0, 2, MaxStored - 1, MaxStored}
PersistedAtLoad(n) == [i \in 1..n |-> StoredEntry(Path(i), CacheEntry(ExifMeta, FALSE))]

InitStore ==
  /\ ServeIdle
  /\ SniffIdle
  /\ ListIdle
  /\ OriginIdle
  /\ PhotoIdle
  /\ PhotosRouteIdle
  /\ \E n \in StoredSizes, writable \in BOOLEAN :
       /\ meta = [MetaInit EXCEPT !.cache = LoadFromLocalStorage(PersistedAtLoad(n))]
       /\ metaEnv = [MetaEnvInit EXCEPT !.stored = PersistedAtLoad(n),
                                        !.writable = writable,
                                        !.budget = MaxMetaCalls]

NextStore == MetaSet

SpecStore == InitStore /\ [][NextStore]_vars

\* is q a suffix of r
IsSuffix(q, r) == Len(q) <= Len(r) /\ q = SubSeq(r, Len(r) - Len(q) + 1, Len(r))
Without(keys, key) == SelectSeq(keys, LAMBDA k : k # key)

\* C30: after a set() that writes to localStorage the persisted object holds
\* at most 1000 entries, the entry just written among them, and what was
\* dropped are the first entries in the object's key order.
C30_PersistedBound ==
  /\ [](metaEnv.last.op = "set" /\ metaEnv.writable =>
          /\ Len(metaEnv.stored) <= 1000
          /\ metaEnv.last.path \in Range(StoredKeys(metaEnv.stored)))
  /\ [][(metaEnv'.last.op = "set" /\ metaEnv.writable) =>
          IsSuffix(Without(StoredKeys(metaEnv'.stored), metaEnv'.last.path),
                   Without(StoredKeys(metaEnv.stored), metaEnv'.last.path))]_vars

====
